---- MODULE Spec2Model ----
(***************************************************************************)
(* Model of the truth-set validator, src/src/ldg/validator.py (validate).  *)
(*                                                                         *)
(* Python strings are sequences of one-character strings, so that the     *)
(* substring test, the slice [:200] and the concatenations of validate    *)
(* are computed on the characters.  The extractor (extract_text as seen   *)
(* from validate, a stand-in in the tests) is the environment: every call *)
(* returns a text or raises an exception.                                  *)
(*                                                                         *)
(* extract_text of src/src/ocr/engine.py (EngineSpec) and run_validation   *)
(* of src/src/cli/main.py (CliSpec) are modelled by their own actions on   *)
(* their own variables, with the validator at rest.                        *)
(***************************************************************************)
EXTENDS Integers, Sequences, FiniteSets, TLC

\* ------------------------------------------------------------------ bounds
\* Largest number of data lines of the truth source.
MaxRows == 2

\* ------------------------------------------------------- program constants
\* ocr_text[:200] and len(ocr_text) > 200
SnippetLen == 200

\* ----------------------------------------------------------- Python values
\* The value None; no string has an element that is not one character.
None == <<"<None>">>

IsStr(v) == v # None

Min(a, b) == IF a < b THEN a ELSE b

\* s[:n]
Slice(s, n) == SubSeq(s, 1, Min(n, Len(s)))

\* needle in hay, for two strings
Contains(needle, hay) ==
    \E i \in 0..(Len(hay) - Len(needle)) :
        SubSeq(hay, i + 1, i + Len(needle)) = needle

\* A string of n copies of the character c.
Rep(c, n) == [i \in 1..n |-> c]

\* Exceptions: a class and the text str(e) gives.
Exc(type, msg) == [type |-> type, msg |-> msg]

\* isinstance(e, FileNotFoundError)
IsFileNotFoundError(e) == e.type = "FileNotFoundError"

\* str(e)
Str(e) == e.msg

\* no exception
NoException == Exc("", <<>>)

\* ----------------------------------------------------------------- literals
PDF_NOT_FOUND == <<"P","D","F"," ","n","o","t"," ","f","o","u","n","d",":"," ">>
UNEXPECTED_ERROR == <<"U","n","e","x","p","e","c","t","e","d"," ","e","r","r","o","r",":"," ">>
MISMATCH == <<"M","i","s","m","a","t","c","h">>
ELLIPSIS == <<".",".",".">>

\* Messages the interpreter and the csv module produce, each one token.
INT_NONE_MSG == <<"<int() argument must be a string ... not 'NoneType'>">>
IN_NONE_MSG == <<"<'in <string>' requires string as left operand, not NoneType>">>
DIV_NONE_MSG == <<"<unsupported operand type(s) for /: 'PosixPath' and 'NoneType'>">>
TRUTH_NOT_FOUND_MSG == <<"<Truth CSV file not found: truth_csv>">>
MISSING_HEADERS_MSG == <<"<Truth CSV missing required headers>">>
OPEN_FAILED_MSG == <<"<Permission denied: truth_csv>">>
READ_FAILED_MSG == <<"<field larger than field limit>">>

\* ------------------------------------------------------------------ inputs
\* pdf_dir and the files in it
pdf_dir == <<"d">>
A_PDF == <<"a",".","p","d","f">>
X_PDF == <<"x",".","p","d","f">>
FileNames == {A_PDF, X_PDF}

\* Path.__truediv__: an absolute right operand replaces the left one, an
\* empty one leaves it.
PathJoin(dir, name) ==
    IF name = <<>> THEN dir
    ELSE IF Head(name) = "/" THEN name
    ELSE dir \o <<"/">> \o name

\* Path.exists(): the PDF directory holds a.pdf only.
ExistingPaths == {pdf_dir, PathJoin(pdf_dir, A_PDF)}
Exists(path) == path \in ExistingPaths

\* the page column as written in the truth source
PageStrs == {<<"1">>, <<"2">>, <<"x">>}
FIELD == <<"F">>
EXPECTED == <<"A","B">>

\* extract_text's configuration, handed through by validate
project_id == "proj"
location == "us"
processor_id == "proc"

\* Texts the extractor returns: one that holds EXPECTED, one of exactly
\* SnippetLen characters that holds it in lower case only, and one longer.
T_MATCH == <<"x","A","B","x">>
T_FULL == <<"a","b">> \o Rep("z", SnippetLen - 2)
T_LONG == Rep("z", SnippetLen + 1)
Texts == {T_MATCH, T_FULL, T_LONG}

\* Exceptions the extractor raises.
OCR_FAILED == <<"O","C","R"," ","F","a","i","l","e","d">>
BOOM == <<"b","o","o","m">>
ExtractorErrors == {Exc("FileNotFoundError", OCR_FAILED), Exc("RuntimeError", BOOM)}

\* ------------------------------------------------------------ truth source
required_headers == {"file_name", "page", "field_name", "expected_text"}

STD_HEADER == <<"file_name", "page", "field_name", "expected_text">>
NO_PAGE_HEADER == <<"file_name", "field_name", "expected_text">>
\* reader.fieldnames of an empty file is None, read as []
Headers == {STD_HEADER, NO_PAGE_HEADER, <<>>}

\* A data line is its cells.
FullLines == {<<f, p, FIELD, EXPECTED>> : f \in FileNames, p \in PageStrs}
ShortLines == {<<A_PDF>>, <<A_PDF, <<"1">> >>}
Lines == FullLines \cup ShortLines

Range(s) == {s[i] : i \in 1..Len(s)}

\* a check of the file_name column alone
HeaderOkFileName(header) == "file_name" \in Range(header)

\* required_headers.issubset(reader.fieldnames or [])
HeaderOk(header) == required_headers \subseteq Range(header)

\* csv.DictReader: the cells of a line under the header's names, None
\* (restval) for the cells a short line lacks.
DictRow(header, cells) ==
    [k \in Range(header) |->
        LET i == CHOOSE j \in 1..Len(header) : header[j] = k
        IN IF i <= Len(cells) THEN cells[i] ELSE None]

\* row.get(key, default)
Get(row, key, default) == IF key \in DOMAIN row THEN row[key] ELSE default

\* row[key] = value
SetItem(row, key, value) ==
    [k \in DOMAIN row \cup {key} |-> IF k = key THEN value ELSE row[k]]

\* int(page_str): an Int, or the exception int raises.
IsDigit(c) == c \in {"0","1","2","3","4","5","6","7","8","9"}
DigitVal(c) == CHOOSE d \in 0..9 : <<"0","1","2","3","4","5","6","7","8","9">>[d + 1] = c
RECURSIVE DigitsVal(_)
DigitsVal(s) ==
    IF s = <<>> THEN 0
    ELSE 10 * DigitsVal(SubSeq(s, 1, Len(s) - 1)) + DigitVal(s[Len(s)])
IsDecimal(s) == s # <<>> /\ \A i \in 1..Len(s) : IsDigit(s[i])
RECURSIVE Strip(_)
Strip(s) ==
    IF s # <<>> /\ Head(s) = " " THEN Strip(Tail(s))
    ELSE IF s # <<>> /\ s[Len(s)] = " " THEN Strip(SubSeq(s, 1, Len(s) - 1))
    ELSE s
Unsigned(s) == IF s # <<>> /\ Head(s) \in {"+", "-"} THEN Tail(s) ELSE s
IntRaisesTypeError(v) == v = None
IntRaisesValueError(v) == v # None /\ ~ IsDecimal(Unsigned(Strip(v)))
Int_(v) ==
    IF Head(Strip(v)) = "-" THEN 0 - DigitsVal(Unsigned(Strip(v)))
    ELSE DigitsVal(Unsigned(Strip(v)))

\* ------------------------------------------------------------------- state
VARIABLES
    pc,               \* where validate is: start, loop, calling, returned, raised
    source,           \* the truth source: exists, readable, header, nrows
    mismatches,       \* the list validate builds and returns
    total_rows,       \* rows taken from the reader
    processed_files,  \* extractor calls that returned
    row,              \* the row being processed (a dict)
    page,             \* the page parsed from the current row
    calls,            \* the extractor's call log: the keyword arguments of each call
    raised,           \* the exception validate raised, NoException if none
    rows_read,        \* history: the rows as the reader delivered them
    results,          \* history: what the extractor did for each row
    origin,           \* history: the row each mismatch record comes from
    call_row          \* history: the row each extractor call was made for

validate_vars == <<pc, source, mismatches, total_rows, processed_files, row, page,
                   calls, raised, rows_read, results, origin, call_row>>

\* extract_text of src/src/ocr/engine.py
VARIABLES
    e_pc,             \* where extract_text is: idle, in_with, ran, done
    e_in,             \* the arguments of the call: pdf_exists, page, lang
    e_tmp,            \* the temporary files on disk: "tmpdir", "output_file"
    e_tools,          \* the external commands the call has run, in order
    e_result,         \* what the call returned or raised
    e_calls,          \* calls started
    e_failed          \* history: how the external tool failed in this call

engine_vars == <<e_pc, e_in, e_tmp, e_tools, e_result, e_calls, e_failed>>

\* run_validation of src/src/cli/main.py
VARIABLES
    cli_pc,           \* where run_validation is: start, validating, reporting, exited
    cli_in,           \* the options: gcp_project_id, gcp_processor_id, gcp_location,
                      \* output_csv, output_json
    cli_validate,     \* what validate did: not called, returned a list, raised
    cli_written,      \* the report files written
    cli_exit          \* the exit code, NoExit before the exit

cli_vars == <<cli_pc, cli_in, cli_validate, cli_written, cli_exit>>

vars == <<validate_vars, engine_vars, cli_vars>>

Sources ==
    [exists : BOOLEAN, readable : BOOLEAN, header : Headers, nrows : 0..MaxRows]

\* what the extractor did for a row
NotCalled == [kind |-> "not_called"]
Pending == [kind |-> "pending"]
Returned(text) == [kind |-> "returned", text |-> text]
Raised(e) == [kind |-> "raised", exc |-> e]

\* extract_text is not running
EngineIdle ==
    /\ e_pc = "idle"
    /\ e_in = [pdf_exists |-> TRUE, page |-> 1, lang |-> "eng+kor"]
    /\ e_tmp = {}
    /\ e_tools = <<>>
    /\ e_result = NotCalled
    /\ e_calls = 0
    /\ e_failed = "no"

\* run_validation is not running
NoExit == -1
CliIdle ==
    /\ cli_pc = "idle"
    /\ cli_in = [gcp_project_id |-> None, gcp_processor_id |-> None,
                 gcp_location |-> "us", output_csv |-> FALSE, output_json |-> FALSE]
    /\ cli_validate = NotCalled
    /\ cli_written = {}
    /\ cli_exit = NoExit

ValidateInit ==
    /\ pc = "start"
    /\ source \in Sources
    /\ mismatches = <<>>
    /\ total_rows = 0
    /\ processed_files = 0
    /\ row = DictRow(<<>>, <<>>)
    /\ page = 0
    /\ calls = <<>>
    /\ raised = NoException
    /\ rows_read = <<>>
    /\ results = <<>>
    /\ origin = <<>>
    /\ call_row = <<>>

Init == ValidateInit /\ EngineIdle /\ CliIdle

\* The structural checks: the source exists, opens and yields its header
\* line, and the header holds the required columns; else validate raises.
Start ==
    /\ pc = "start"
    /\ IF ~ source.exists
          THEN /\ raised' = Exc("FileNotFoundError", TRUTH_NOT_FOUND_MSG)
               /\ pc' = "raised"
       ELSE IF ~ source.readable
          THEN /\ raised' = Exc("PermissionError", OPEN_FAILED_MSG)
               /\ pc' = "raised"
       ELSE IF ~ HeaderOk(source.header)
          THEN /\ raised' = Exc("ValueError", MISSING_HEADERS_MSG)
               /\ pc' = "raised"
       ELSE /\ pc' = "loop"
            /\ UNCHANGED raised
    /\ UNCHANGED <<engine_vars, cli_vars>>
    /\ UNCHANGED <<source, mismatches, total_rows, processed_files, row, page,
                   calls, rows_read, results, origin, call_row>>

\* insertion at the front of the list
EmitFirst(rec, i) ==
    /\ mismatches' = <<rec>> \o mismatches
    /\ origin' = <<i>> \o origin

\* mismatches.append(rec), rec being row i with its new keys
Emit(rec, i) ==
    /\ mismatches' = Append(mismatches, rec)
    /\ origin' = Append(origin, i)

\* the message without the path
PdfNotFoundMessageNoPath(path) == PDF_NOT_FOUND

\* f"PDF not found: {pdf_path}"
PdfNotFoundMessage(path) == PDF_NOT_FOUND \o path

\* The call validate makes: keyword arguments only, no page among them.
ExtractCall(path) ==
    [pdf_path |-> path, project_id |-> project_id,
     location |-> location, processor_id |-> processor_id]

\* extract_text(...) is called: the stand-in's call log after the call
Invoke(log, call) == Append(log, call)

\* One turn of the loop up to the extractor call: take the next row, resolve
\* its path, parse its page, and call the extractor.
ReadRow ==
    /\ pc = "loop"
    /\ total_rows < source.nrows
    /\ \E line \in Lines :
        LET r == DictRow(source.header, line)
            file_name == r["file_name"]
            page_str == Get(r, "page", <<"1">>)
            path == PathJoin(pdf_dir, file_name)
        IN
        /\ total_rows' = total_rows + 1
        /\ rows_read' = Append(rows_read, r)
        /\ row' = r
        /\ IF file_name = None
              THEN \* pdf_dir / None raises TypeError
                   /\ Emit(SetItem(r, "validation_error", UNEXPECTED_ERROR \o DIV_NONE_MSG), total_rows + 1)
                   /\ results' = Append(results, NotCalled)
                   /\ pc' = "loop"
                   /\ UNCHANGED <<page, calls, call_row>>
           ELSE IF ~ Exists(path)
              THEN /\ Emit(SetItem(r, "validation_error", PdfNotFoundMessage(path)), total_rows + 1)
                   /\ results' = Append(results, NotCalled)
                   /\ pc' = "loop"
                   /\ UNCHANGED <<page, calls, call_row>>
           ELSE IF IntRaisesTypeError(page_str)
              THEN \* int(None) raises TypeError
                   /\ Emit(SetItem(r, "validation_error", UNEXPECTED_ERROR \o INT_NONE_MSG), total_rows + 1)
                   /\ results' = Append(results, NotCalled)
                   /\ pc' = "loop"
                   /\ UNCHANGED <<page, calls, call_row>>
           ELSE /\ page' = IF IntRaisesValueError(page_str) THEN 1 ELSE Int_(page_str)
                /\ calls' = Invoke(calls, ExtractCall(path))
                /\ call_row' = Append(call_row, total_rows')
                /\ results' = Append(results, Pending)
                /\ pc' = "calling"
                /\ UNCHANGED <<mismatches, origin>>
    /\ UNCHANGED <<engine_vars, cli_vars>>
    /\ UNCHANGED <<source, processed_files, raised>>

\* The reader raises while delivering the next row (a field over the csv
\* field limit, bytes that are not UTF-8); validate re-raises.
ReadFails ==
    /\ pc = "loop"
    /\ total_rows < source.nrows
    /\ raised' = Exc("csv.Error", READ_FAILED_MSG)
    /\ pc' = "raised"
    /\ UNCHANGED <<engine_vars, cli_vars>>
    /\ UNCHANGED <<source, mismatches, total_rows, processed_files, row, page,
                   calls, rows_read, results, origin, call_row>>

\* equality in place of containment
IsMatchExact(expected_text, ocr_text) == expected_text = ocr_text

\* not (expected_text not in ocr_text)
IsMatch(expected_text, ocr_text) == Contains(expected_text, ocr_text)

\* the ellipsis from 200 characters on
SnippetFrom200(ocr_text) ==
    Slice(ocr_text, SnippetLen) \o (IF Len(ocr_text) >= SnippetLen THEN ELLIPSIS ELSE <<>>)

\* ocr_text[:200] + ("..." if len(ocr_text) > 200 else "")
Snippet(ocr_text) ==
    Slice(ocr_text, SnippetLen) \o (IF Len(ocr_text) > SnippetLen THEN ELLIPSIS ELSE <<>>)

\* The extractor returns ocr_text: the substring check.
ExtractorReturns ==
    /\ pc = "calling"
    /\ \E ocr_text \in Texts :
        LET expected_text == row["expected_text"] IN
        /\ processed_files' = processed_files + 1
        /\ results' = [results EXCEPT ![total_rows] = Returned(ocr_text)]
        /\ IF expected_text = None
              THEN \* None in ocr_text raises TypeError
                   Emit(SetItem(row, "validation_error", UNEXPECTED_ERROR \o IN_NONE_MSG), total_rows)
           ELSE IF ~ IsMatch(expected_text, ocr_text)
              THEN Emit(SetItem(SetItem(row, "validation_error", MISMATCH),
                                "ocr_output_snippet", Snippet(ocr_text)), total_rows)
           ELSE UNCHANGED <<mismatches, origin>>
    /\ pc' = "loop"
    /\ UNCHANGED <<engine_vars, cli_vars>>
    /\ UNCHANGED <<source, total_rows, row, page, calls, raised, rows_read, call_row>>

\* str(e) for every exception
HandlerMessageStr(e) == Str(e)

\* validation_error of a row whose extraction raised e: str(e) under
\* except FileNotFoundError, f"Unexpected error: {e}" under except Exception
HandlerMessage(e) ==
    IF IsFileNotFoundError(e) THEN Str(e) ELSE UNEXPECTED_ERROR \o Str(e)

\* The extractor raises e: the two handlers of the row.
ExtractorRaises ==
    /\ pc = "calling"
    /\ \E e \in ExtractorErrors :
        /\ results' = [results EXCEPT ![total_rows] = Raised(e)]
        /\ Emit(SetItem(row, "validation_error", HandlerMessage(e)), total_rows)
    /\ pc' = "loop"
    /\ UNCHANGED <<engine_vars, cli_vars>>
    /\ UNCHANGED <<source, total_rows, processed_files, row, page, calls, raised,
                   rows_read, call_row>>

\* The reader is exhausted: return mismatches.
Return ==
    /\ pc = "loop"
    /\ total_rows = source.nrows
    /\ pc' = "returned"
    /\ UNCHANGED <<engine_vars, cli_vars>>
    /\ UNCHANGED <<source, mismatches, total_rows, processed_files, row, page,
                   calls, raised, rows_read, results, origin, call_row>>

Next ==
    \/ Start
    \/ ReadRow
    \/ ReadFails
    \/ ExtractorReturns
    \/ ExtractorRaises
    \/ Return

Spec == Init /\ [][Next]_vars

\* ---------------------------------------------------------------- history
\* Rows whose outcome is decided: all rows read but the one being extracted.
Decided == IF pc = "calling" THEN total_rows - 1 ELSE total_rows

\* The places in mismatches that hold a record of row i.
RecordsOf(i) == {k \in 1..Len(mismatches) : origin[k] = i}

\* The extractor calls made for row i.
CallsOf(i) == {c \in 1..Len(calls) : call_row[c] = i}

\* pdf_dir / file_name of row i, for a row that has a file name
RowPath(i) == PathJoin(pdf_dir, rows_read[i]["file_name"])
HasFileName(i) == rows_read[i]["file_name"] # None
PdfMissing(i) == HasFileName(i) /\ ~ Exists(RowPath(i))
PdfExists(i) == HasFileName(i) /\ Exists(RowPath(i))

\* Row i has an expected_text (a string), the extractor returned a text for
\* it, and the text holds / does not hold expected_text.
Extracted(i) ==
    /\ PdfExists(i)
    /\ results[i].kind = "returned"
    /\ IsStr(rows_read[i]["expected_text"])
TextHolds(i) == Extracted(i) /\ Contains(rows_read[i]["expected_text"], results[i].text)
TextLacks(i) == Extracted(i) /\ ~ Contains(rows_read[i]["expected_text"], results[i].text)

\* int(page_str) of row i with its fallback 1, for a row that has a page
RowPage(i) ==
    LET page_str == Get(rows_read[i], "page", <<"1">>)
    IN IF IntRaisesValueError(page_str) THEN 1 ELSE Int_(page_str)

\* The extractor raised for row i.
ExtractionRaised(i) == results[i].kind = "raised"

\* Row i has exactly one record and its validation_error is msg.
OneRecord(i, msg) ==
    /\ Cardinality(RecordsOf(i)) = 1
    /\ \A k \in RecordsOf(i) : mismatches[k]["validation_error"] = msg

\* ------------------------------------------------------------------ claims

\* C1: a row whose resolved path pdf_dir/file_name does not exist gets
\* exactly one mismatch record, with validation_error "PDF not found: "
\* followed by the resolved path; the extractor is not called for the row;
\* and the step that handles the row leaves validate in its loop, ready
\* for the next row.
C1_MissingRows ==
    \A i \in 1..Decided :
        PdfMissing(i) =>
            /\ Cardinality(RecordsOf(i)) = 1
            /\ \A k \in RecordsOf(i) :
                   mismatches[k]["validation_error"] = PDF_NOT_FOUND \o RowPath(i)
            /\ CallsOf(i) = {}
            /\ results[i] = NotCalled
C1_MissingStep ==
    (total_rows' = total_rows + 1 /\ PdfMissing(total_rows)')
        => (pc' = "loop" /\ calls' = calls /\ Len(mismatches') = Len(mismatches) + 1)
C1_PdfNotFound == [] C1_MissingRows /\ [][C1_MissingStep]_vars

\* C1 witness: a row with a missing PDF was handled and the next row read.
C1_Witness ==
    \E i \in 1..Decided : PdfMissing(i) /\ RecordsOf(i) # {} /\ total_rows > i

\* C2: a row whose PDF exists, whose extraction returned a text and whose
\* expected_text (a string) is not a case-sensitive substring of that text
\* gets exactly one mismatch record, with validation_error "Mismatch" and
\* ocr_output_snippet the first 200 characters of the text, followed by
\* "..." exactly when the text is longer than 200 characters.
C2_Mismatch ==
    \A i \in 1..Decided :
        TextLacks(i) =>
            /\ Cardinality(RecordsOf(i)) = 1
            /\ \A k \in RecordsOf(i) :
                LET t == results[i].text IN
                /\ mismatches[k]["validation_error"] = MISMATCH
                /\ "ocr_output_snippet" \in DOMAIN mismatches[k]
                /\ mismatches[k]["ocr_output_snippet"] =
                     IF Len(t) > SnippetLen
                     THEN SubSeq(t, 1, SnippetLen) \o <<".", ".", ".">>
                     ELSE t

\* C2 witness: one run holds a mismatching text of exactly 200 characters
\* and one of more, both recorded.
C2_Witness ==
    \E i, j \in 1..Decided :
        /\ TextLacks(i) /\ Len(results[i].text) = SnippetLen /\ RecordsOf(i) # {}
        /\ TextLacks(j) /\ Len(results[j].text) > SnippetLen /\ RecordsOf(j) # {}

\* C3: a row whose PDF exists and whose extracted text holds expected_text
\* as a case-sensitive substring gets no mismatch record; a run all of whose
\* rows are such rows returns the empty list.
C3_Match ==
    /\ \A i \in 1..Decided : TextHolds(i) => RecordsOf(i) = {}
    /\ (pc = "returned" /\ \A i \in 1..total_rows : TextHolds(i)) => mismatches = <<>>

\* C3 witness: a run of two matching rows has returned.
C3_Witness ==
    /\ pc = "returned"
    /\ total_rows >= 2
    /\ \A i \in 1..total_rows : TextHolds(i)

\* C4 as claimed: a row whose extraction raised gets exactly one record
\* whose validation_error is the exception's message string.
C4_Original ==
    \A i \in 1..Decided :
        ExtractionRaised(i) => OneRecord(i, results[i].exc.msg)

\* C4 as amended: a row whose extraction raised gets exactly one record;
\* its validation_error is the exception's message for a FileNotFoundError
\* and "Unexpected error: " followed by the message for any other
\* exception.  The step that records it changes nothing but the list, to
\* which it appends, and leaves validate in its loop; every later row gets
\* the outcome its own path, text and expected_text determine.
C4_RaisedRows ==
    \A i \in 1..Decided :
        ExtractionRaised(i) =>
            /\ OneRecord(i, IF results[i].exc.type = "FileNotFoundError"
                            THEN results[i].exc.msg
                            ELSE <<"U","n","e","x","p","e","c","t","e","d"," ",
                                   "e","r","r","o","r",":"," ">> \o results[i].exc.msg)
            /\ \A j \in (i + 1)..Decided :
                /\ PdfMissing(j) => OneRecord(j, PDF_NOT_FOUND \o RowPath(j))
                /\ TextHolds(j) => RecordsOf(j) = {}
                /\ TextLacks(j) => OneRecord(j, MISMATCH)
C4_RaiseStep ==
    (pc = "calling" /\ (ExtractionRaised(total_rows))') =>
        /\ pc' = "loop"
        /\ raised' = raised
        /\ UNCHANGED <<source, total_rows, calls, rows_read>>
        /\ Len(mismatches') = Len(mismatches) + 1
        /\ SubSeq(mismatches', 1, Len(mismatches)) = mismatches
C4_ExtractorException == [] C4_RaisedRows /\ [][C4_RaiseStep]_vars

\* C4 witness: an exception other than FileNotFoundError was recorded for
\* one row and a FileNotFoundError for a later one.
C4_Witness ==
    \E i, j \in 1..Decided :
        /\ i < j
        /\ ExtractionRaised(i) /\ results[i].exc.type # "FileNotFoundError"
        /\ ExtractionRaised(j) /\ results[j].exc.type = "FileNotFoundError"
        /\ RecordsOf(i) # {} /\ RecordsOf(j) # {}

\* C5: the list validate builds is in truth-row order: of two records the
\* earlier one comes from the earlier row, each record holds the columns of
\* the row it comes from, and the returned list holds one record for every
\* row but those whose extracted text holds expected_text, whatever made
\* the row a mismatch.
C5_Order ==
    /\ \A j, k \in 1..Len(mismatches) : j < k => origin[j] < origin[k]
    /\ \A k \in 1..Len(mismatches) :
           \A col \in {"file_name", "page", "field_name", "expected_text"} :
               mismatches[k][col] = rows_read[origin[k]][col]
    /\ pc = "returned" =>
           {origin[k] : k \in 1..Len(mismatches)} = {i \in 1..total_rows : ~ TextHolds(i)}

\* C5 witness: a returned list of two records with different causes, one
\* of them a text mismatch, the other a missing PDF or an exception.
C5_Witness ==
    /\ pc = "returned"
    /\ Len(mismatches) = 2
    /\ \E i, j \in 1..total_rows :
           /\ i # j
           /\ PdfMissing(i) \/ ExtractionRaised(i)
           /\ TextLacks(j)

\* C6: when the truth source does not exist, cannot be opened or its header
\* lacks one of file_name, page, field_name, expected_text, validate raises
\* in its first step: no row is read, the extractor is not called and no
\* list is returned.
StructurallyBad ==
    \/ ~ source.exists
    \/ ~ source.readable
    \/ ~ ({"file_name", "page", "field_name", "expected_text"} \subseteq Range(source.header))
C6_FailFast ==
    (StructurallyBad /\ pc # "start") =>
        /\ pc = "raised"
        /\ raised # NoException
        /\ total_rows = 0
        /\ rows_read = <<>>
        /\ calls = <<>>
        /\ mismatches = <<>>

\* C6 witness: a readable source of some rows whose header lacks a
\* required column made validate raise.
C6_Witness ==
    /\ source.exists /\ source.readable /\ source.nrows > 0
    /\ source.header # <<>>
    /\ StructurallyBad
    /\ pc = "raised"

\* C7 as claimed: once the structural checks have passed validate does not
\* raise; every row yields no record or one, no row without a matching
\* text is dropped, and the list is never longer than the rows read.
C7_NeverRaises ==
    (~ StructurallyBad /\ pc # "start") =>
        /\ pc # "raised"
        /\ Len(mismatches) <= total_rows
        /\ \A i \in 1..Decided :
               /\ Cardinality(RecordsOf(i)) <= 1
               /\ ~ TextHolds(i) => RecordsOf(i) # {}

\* C8 as claimed: a returned run has called the extractor once for every
\* row whose PDF exists, and for no other row.
C8_OneCallPerRow ==
    pc = "returned" =>
        /\ Len(calls) = Cardinality({i \in 1..total_rows : PdfExists(i)})
        /\ \A i \in 1..total_rows : PdfExists(i) => Cardinality(CallsOf(i)) = 1

\* C9 as claimed: no two extractor calls of a run are for the same
\* (file, page) pair.
C9_OneCallPerPair ==
    \A c, d \in 1..Len(calls) :
        c # d => <<rows_read[call_row[c]]["file_name"], RowPage(call_row[c])>>
                 # <<rows_read[call_row[d]]["file_name"], RowPage(call_row[d])>>

\* C10 as claimed: every extractor call is made with the resolved path of
\* its row and with the page parsed from that row.
C10_CallArguments ==
    \A c \in 1..Len(calls) :
        /\ calls[c].pdf_path = RowPath(call_row[c])
        /\ "page" \in DOMAIN calls[c]
        /\ calls[c]["page"] = RowPage(call_row[c])

\* C11 as claimed: a row whose PDF exists and whose page value is missing
\* or malformed is handled as a row of page 1: the extractor is called for
\* it once, it gets no record when the text holds expected_text, and any
\* record it gets is due to the text or to the extractor, not to the page.
PageMissing(i) == Get(rows_read[i], "page", <<"1">>) = None
PageMalformed(i) == ~ PageMissing(i) /\ IntRaisesValueError(Get(rows_read[i], "page", <<"1">>))
C11_PageDefault ==
    \A i \in 1..Decided :
        (PdfExists(i) /\ (PageMissing(i) \/ PageMalformed(i))) =>
            /\ Cardinality(CallsOf(i)) = 1
            /\ results[i].kind \in {"returned", "raised"}
            /\ TextHolds(i) => RecordsOf(i) = {}

\* ------------------------------------------------ extract_text (ocr/engine)
\* calls of extract_text in one run of the model
MaxCalls == 2

\* the arguments extract_text is called with
Pages == {-1, 0, 1, 2}
Langs == {"eng+kor", "eng"}

\* the text Tesseract writes to output_base.txt
OcrTexts == {<<>>, T_MATCH}

\* messages of the exceptions extract_text lets out
INPUT_PDF_NOT_FOUND_MSG == <<"<Input PDF not found: pdf_path>">>
NO_TESSERACT_MSG == <<"<[Errno 2] No such file or directory: 'tesseract'>">>
NONZERO_EXIT_MSG == <<"<Command '['tesseract', ...]' returned non-zero exit status 1.>">>
NO_OUTPUT_FILE_MSG == <<"<Tesseract failed to create output file.>">>
DECODE_MSG == <<"<'utf-8' codec can't decode byte>">>

\* validate is not running: the engine and the command are modelled with
\* the validator at rest on an empty truth source.
ValidateIdle ==
    /\ ValidateInit
    /\ source = [exists |-> TRUE, readable |-> TRUE, header |-> STD_HEADER, nrows |-> 0]

\* tesseract_cmd: the PDF itself is the input, the page enters the name of
\* the output file only, and no page is selected.
TesseractCmd(in) ==
    [tool |-> "tesseract", input |-> "pdf_path", output_base_page |-> in.page,
     lang |-> in.lang, psm |-> "4"]

\* what each outcome of subprocess.run and of the read is
ToolOutcomes == {"ok", "no_output", "nonzero", "missing_binary"}

\* the directory is left on disk, emptied
CleanupKeepDir(tmp) == tmp \ {"output_file"}

\* TemporaryDirectory.__exit__: the directory and all it holds are removed,
\* however the with block is left.
Cleanup(tmp) == tmp \ {"tmpdir", "output_file"}

\* extract_text is entered: the check that the PDF exists, then the with
\* block creates the temporary directory.
ExtractStart ==
    /\ e_pc \in {"idle", "done"}
    /\ e_calls < MaxCalls
    /\ e_calls' = e_calls + 1
    /\ \E ex \in BOOLEAN, pg \in Pages, lg \in Langs :
        /\ e_in' = [pdf_exists |-> ex, page |-> pg, lang |-> lg]
        /\ e_tools' = <<>>
        /\ e_failed' = "no"
        /\ IF ~ ex
              THEN /\ e_result' = Raised(Exc("FileNotFoundError", INPUT_PDF_NOT_FOUND_MSG))
                   /\ e_pc' = "done"
                   /\ UNCHANGED e_tmp
              ELSE /\ e_result' = Pending
                   /\ e_pc' = "in_with"
                   /\ e_tmp' = e_tmp \cup {"tmpdir"}
    /\ UNCHANGED <<validate_vars, cli_vars>>

\* subprocess.run(tesseract_cmd, check=True): the one external command.
\* A missing binary raises FileNotFoundError, a non-zero exit
\* CalledProcessError; both handlers re-raise.
RunTool ==
    /\ e_pc = "in_with"
    /\ e_tools' = Append(e_tools, TesseractCmd(e_in))
    /\ \E outcome \in ToolOutcomes :
        CASE outcome = "ok" ->
                /\ e_tmp' = e_tmp \cup {"output_file"}
                /\ e_pc' = "ran"
                /\ UNCHANGED <<e_result, e_failed>>
          [] outcome = "no_output" ->
                /\ e_failed' = "no_output"
                /\ e_pc' = "ran"
                /\ UNCHANGED <<e_result, e_tmp>>
          [] outcome = "nonzero" ->
                /\ e_failed' = "nonzero"
                /\ e_result' = Raised(Exc("CalledProcessError", NONZERO_EXIT_MSG))
                /\ e_tmp' = Cleanup(e_tmp)
                /\ e_pc' = "done"
          [] outcome = "missing_binary" ->
                /\ e_failed' = "missing_binary"
                /\ e_result' = Raised(Exc("FileNotFoundError", NO_TESSERACT_MSG))
                /\ e_tmp' = Cleanup(e_tmp)
                /\ e_pc' = "done"
    /\ UNCHANGED <<e_in, e_calls>>
    /\ UNCHANGED <<validate_vars, cli_vars>>

\* The output file: RuntimeError if Tesseract did not write it, else its
\* text is read and returned, or the read raises; the handler re-raises.
ReadOutput ==
    /\ e_pc = "ran"
    /\ IF "output_file" \notin e_tmp
          THEN /\ e_result' = Raised(Exc("RuntimeError", NO_OUTPUT_FILE_MSG))
               /\ UNCHANGED e_failed
          ELSE \/ /\ \E text \in OcrTexts : e_result' = Returned(text)
                  /\ UNCHANGED e_failed
               \/ /\ e_result' = Raised(Exc("UnicodeDecodeError", DECODE_MSG))
                  /\ e_failed' = "read"
    /\ e_tmp' = Cleanup(e_tmp)
    /\ e_pc' = "done"
    /\ UNCHANGED <<e_in, e_tools, e_calls>>
    /\ UNCHANGED <<validate_vars, cli_vars>>

EngineInit == ValidateIdle /\ EngineIdle /\ CliIdle

EngineNext ==
    \/ ExtractStart
    \/ RunTool
    \/ ReadOutput

EngineSpec == EngineInit /\ [][EngineNext]_vars

\* a call of extract_text is over, on an existing PDF
EngineDone == e_pc = "done" /\ e_in.pdf_exists

\* C12 as claimed: a call on an existing PDF with page < 1 runs no external
\* command and ends by raising ValueError.
C12_InvalidPage ==
    (e_pc # "idle" /\ e_in.pdf_exists /\ e_in.page < 1) =>
        /\ e_tools = <<>>
        /\ e_pc = "done" => (e_result.kind = "raised" /\ e_result.exc.type = "ValueError")

\* C13 as claimed: a call on an existing PDF with page >= 1 in which the
\* external tool failed (binary missing, non-zero exit, no output file)
\* returns the empty string.
C13_ToolFailureReturnsEmpty ==
    (EngineDone /\ e_in.page >= 1 /\ e_failed \in {"missing_binary", "nonzero", "no_output"}) =>
        e_result = Returned(<<>>)

\* C14: no call of extract_text leaves temporary files: once a call has
\* returned or raised, on whichever path, the temporary directory and the
\* output file in it are gone; and they exist only while a call is inside
\* its with block.
C14_NoTempLeft ==
    /\ e_pc \in {"idle", "done"} => e_tmp = {}
    /\ e_pc \in {"in_with", "ran"} => "tmpdir" \in e_tmp
C14_Witness ==
    /\ EngineDone
    /\ e_tools # <<>>
    /\ e_failed = "no_output"
    /\ e_result.kind = "raised"
    /\ e_calls = 2
    /\ e_tmp = {}

\* C15 as claimed: a call that returns text for page p has run two
\* commands, the rasterizer bounded to first page = last page = p and then
\* the recognizer.
C15_TwoTools ==
    (EngineDone /\ e_result.kind = "returned") =>
        /\ Len(e_tools) = 2
        /\ e_tools[1].tool = "gs"
        /\ e_tools[1].first_page = e_in.page
        /\ e_tools[1].last_page = e_in.page
        /\ e_tools[2].tool = "tesseract"

\* ------------------------------------------------ run_validation (cli/main)
\* Largest number of mismatches validate returns to the command.
MaxMismatches == 3

\* the exit codes of the command
EXIT_OK == 0
EXIT_MISMATCH == 1
EXIT_FILE_NOT_FOUND == 2
EXIT_UNEXPECTED == 3
EXIT_CONFIG == 4
EXIT_IMPORT == 5

\* --gcp-project-id / --gcp-processor-id: unset, empty, or set
IdValues == {None, <<>>, <<"p">>}
Locations == {"us", "eu"}

\* not project_id
Falsy(v) == v = None \/ v = <<>>

\* what validate raises into the command
ValidateErrors ==
    {Exc("FileNotFoundError", TRUTH_NOT_FOUND_MSG),
     Exc("ImportError", <<"<cannot import name 'documentai'>">>),
     Exc("ModuleNotFoundError", <<"<No module named 'google'>">>),
     Exc("ValueError", MISSING_HEADERS_MSG),
     Exc("PermissionError", OPEN_FAILED_MSG),
     Exc("csv.Error", READ_FAILED_MSG)}

\* isinstance(e, ImportError)
IsImportError(e) == e.type \in {"ImportError", "ModuleNotFoundError"}

\* raise typer.Exit(code): typer.Exit is click.exceptions.Exit, a subclass
\* of RuntimeError
Exit(code) == Exc("Exit", <<code>>)

\* the import error handled as any other error
HandlerExitNoImport(e) ==
    IF IsFileNotFoundError(e) THEN EXIT_FILE_NOT_FOUND
    ELSE EXIT_UNEXPECTED

\* The handlers of the try block, for an exception e raised inside it:
\* except FileNotFoundError, except ImportError, except Exception.
HandlerExit(e) ==
    IF IsFileNotFoundError(e) THEN EXIT_FILE_NOT_FOUND
    ELSE IF IsImportError(e) THEN EXIT_IMPORT
    ELSE EXIT_UNEXPECTED

\* The command starts: the two identifiers are checked before the try
\* block, then validate is called.
CliStart ==
    /\ cli_pc = "idle"
    /\ \E pid \in IdValues, prc \in IdValues, loc \in Locations,
          ocsv \in BOOLEAN, ojson \in BOOLEAN :
        /\ cli_in' = [gcp_project_id |-> pid, gcp_processor_id |-> prc,
                      gcp_location |-> loc, output_csv |-> ocsv, output_json |-> ojson]
        /\ IF Falsy(pid) \/ Falsy(prc)
              THEN /\ cli_exit' = EXIT_CONFIG
                   /\ cli_pc' = "exited"
                   /\ UNCHANGED cli_validate
              ELSE /\ cli_validate' = Pending
                   /\ cli_pc' = "validating"
                   /\ UNCHANGED cli_exit
    /\ UNCHANGED cli_written
    /\ UNCHANGED <<validate_vars, engine_vars>>

\* validate returns n mismatches.  With none, raise typer.Exit(code=0)
\* inside the try block, which the handlers of the block receive.
CliValidateReturns ==
    /\ cli_pc = "validating"
    /\ \E n \in 0..MaxMismatches :
        /\ cli_validate' = [kind |-> "returned", n |-> n]
        /\ IF n = 0
              THEN /\ cli_exit' = HandlerExit(Exit(EXIT_OK))
                   /\ cli_pc' = "exited"
              ELSE /\ cli_pc' = "reporting"
                   /\ UNCHANGED cli_exit
    /\ UNCHANGED <<cli_in, cli_written>>
    /\ UNCHANGED <<validate_vars, engine_vars>>

\* validate raises e.
CliValidateRaises ==
    /\ cli_pc = "validating"
    /\ \E e \in ValidateErrors :
        /\ cli_validate' = Raised(e)
        /\ cli_exit' = HandlerExit(e)
    /\ cli_pc' = "exited"
    /\ UNCHANGED <<cli_in, cli_written>>
    /\ UNCHANGED <<validate_vars, engine_vars>>

\* The mismatches are printed and written to the files asked for (a write
\* that fails is reported and passed over), then raise typer.Exit(code=1),
\* inside the try block as well.
CliReport ==
    /\ cli_pc = "reporting"
    /\ \E csv_ok \in BOOLEAN, json_ok \in BOOLEAN :
        cli_written' = {f \in {"csv", "json"} :
                            \/ f = "csv" /\ cli_in.output_csv /\ csv_ok
                            \/ f = "json" /\ cli_in.output_json /\ json_ok}
    /\ cli_exit' = HandlerExit(Exit(EXIT_MISMATCH))
    /\ cli_pc' = "exited"
    /\ UNCHANGED <<cli_in, cli_validate>>
    /\ UNCHANGED <<validate_vars, engine_vars>>

CliInit == ValidateIdle /\ EngineIdle /\ CliIdle

CliNext ==
    \/ CliStart
    \/ CliValidateReturns
    \/ CliValidateRaises
    \/ CliReport

CliSpec == CliInit /\ [][CliNext]_vars

\* the command has exited
CliExited == cli_pc = "exited"
IdsPresent == ~ Falsy(cli_in.gcp_project_id) /\ ~ Falsy(cli_in.gcp_processor_id)

\* C16 as claimed: with both identifiers present, the command exits with 0
\* when validate returned an empty list and with 1 when it returned a
\* non-empty one.
C16_ExitOnReturn ==
    (CliExited /\ IdsPresent /\ cli_validate.kind = "returned") =>
        cli_exit = (IF cli_validate.n = 0 THEN EXIT_OK ELSE EXIT_MISMATCH)

\* C17: a missing project or processor identifier exits with 4 and
\* validate is never invoked; validate raising FileNotFoundError exits
\* with 2, raising ImportError with 5, raising any other error with 3.
C17_FailureExits ==
    /\ (cli_pc # "idle" /\ ~ IdsPresent) =>
            (CliExited /\ cli_exit = EXIT_CONFIG /\ cli_validate = NotCalled)
    /\ (CliExited /\ cli_validate.kind = "raised") =>
            /\ IdsPresent
            /\ IsFileNotFoundError(cli_validate.exc) => cli_exit = EXIT_FILE_NOT_FOUND
            /\ IsImportError(cli_validate.exc) => cli_exit = EXIT_IMPORT
            /\ (~ IsFileNotFoundError(cli_validate.exc) /\ ~ IsImportError(cli_validate.exc))
                    => cli_exit = EXIT_UNEXPECTED
C17_Witness ==
    /\ CliExited
    /\ cli_validate.kind = "raised"
    /\ cli_validate.exc.type = "ModuleNotFoundError"
    /\ cli_exit = EXIT_IMPORT

\* ------------------------------------- truth sources with further columns
\* A truth source may hold columns beyond the required ones (the header
\* check is issubset); a report the command wrote, read back as truth
\* source, has these two.
EXT_HEADER == <<"file_name", "page", "field_name", "expected_text",
                "validation_error", "ocr_output_snippet">>
ExtSources ==
    [exists : {TRUE}, readable : {TRUE}, header : {STD_HEADER, EXT_HEADER},
     nrows : 0..MaxRows]

ExtInit ==
    /\ pc = "start"
    /\ source \in ExtSources
    /\ mismatches = <<>>
    /\ total_rows = 0
    /\ processed_files = 0
    /\ row = DictRow(<<>>, <<>>)
    /\ page = 0
    /\ calls = <<>>
    /\ raised = NoException
    /\ rows_read = <<>>
    /\ results = <<>>
    /\ origin = <<>>
    /\ call_row = <<>>
    /\ EngineIdle
    /\ CliIdle

ExtSpec == ExtInit /\ [][Next]_vars

\* v is the message of an exception of row i: the text of the exception
\* the extractor raised, bare or behind "Unexpected error: ", or the text
\* of an exception raised in validate itself behind that prefix.
IsExceptionMessage(i, v) ==
    \/ /\ ExtractionRaised(i)
       /\ v \in {Str(results[i].exc), UNEXPECTED_ERROR \o Str(results[i].exc)}
    \/ /\ Len(v) > Len(UNEXPECTED_ERROR)
       /\ Slice(v, Len(UNEXPECTED_ERROR)) = UNEXPECTED_ERROR

\* C18 as claimed: every mismatch record holds the four fields of its truth
\* row unchanged; its validation_error is "PDF not found: <path>",
\* "Mismatch" or an exception message; and it has an ocr_output_snippet
\* field only when its validation_error is "Mismatch".
C18_Records ==
    \A k \in 1..Len(mismatches) :
        LET i == origin[k]
            rec == mismatches[k]
        IN
        /\ \A f \in required_headers : rec[f] = rows_read[i][f]
        /\ \/ PdfMissing(i) /\ rec["validation_error"] = PDF_NOT_FOUND \o RowPath(i)
           \/ rec["validation_error"] = MISMATCH
           \/ IsExceptionMessage(i, rec["validation_error"])
        /\ "ocr_output_snippet" \in DOMAIN rec => rec["validation_error"] = MISMATCH

\* ------------------------------------------------------------ termination
\* validate is one thread: it takes its next step whenever it has one, and
\* every extractor call returns or raises.
FairSpec == Spec /\ WF_vars(Next)

\* No extractor call is open but the one of the row being processed.
OneAtATime ==
    /\ Len(results) = total_rows
    /\ \A i \in 1..Len(results) :
           results[i] = Pending => (i = total_rows /\ pc = "calling")
    /\ \A c \in 1..Len(calls) : call_row[c] <= total_rows
    /\ \A c, d \in 1..Len(calls) : c < d => call_row[c] < call_row[d]

\* A row is taken from the reader only when the row before it is decided.
InOrderStep ==
    total_rows' # total_rows =>
        /\ total_rows' = total_rows + 1
        /\ pc = "loop"
        /\ \A i \in 1..total_rows : results[i] # Pending

\* validate has returned the list after the last row.
ReturnedAfterLastRow == pc = "returned" /\ total_rows = source.nrows

\* validate has raised on one of the structural checks, which precede the
\* rows: the source is missing, does not open, or lacks a required column.
StructuralError ==
    /\ pc = "raised"
    /\ total_rows = 0
    /\ ~ source.exists \/ ~ source.readable \/ ~ HeaderOk(source.header)

\* C19 as claimed: rows are processed one at a time in source order, the
\* extractor call of a row starting only after the row before it is
\* decided; and, every extractor call returning or raising, a run
\* eventually either returns the list after the last row or stops with a
\* structural error.
C19_SequentialAndFinishes ==
    /\ []OneAtATime
    /\ [][InOrderStep]_vars
    /\ <>(ReturnedAfterLastRow \/ StructuralError)

====
